---- MODULE Spec2Model ----
(***************************************************************************)
(* Model of mesonbuild/cargo/validate.py: the validator() predicate        *)
(* compiler, its VALIDATORS cache, typeddict_validator() and the           *)
(* lru_cache'd dataclass_field_validators(); and of run_tool_on_targets()  *)
(* of mesonbuild/scripts/clippy.py with its run_subprocess tasks.          *)
(*                                                                         *)
(* Dynamic values, type descriptors and compiled predicates (closures) are *)
(* tagged tuples <<tag, payload>>.  A predicate applied to a value yields  *)
(* "True", "False" or "TypeError" (the exception isinstance()/issubclass() *)
(* raise when their second argument is not a class).                       *)
(***************************************************************************)
EXTENDS Integers, Sequences, FiniteSets

\* ------------------------------------------------------------------ bounds
MaxLen == 2          \* longest list / tuple / dict among the values tried
MaxCalls == 2        \* top-level calls made in one run of the sequential program
NThreads == 2        \* execution contexts racing in the concurrent program
RecursionLimit == 6  \* call depth at which the interpreter raises RecursionError
MaxTargets == 2      \* longest list of targets given to run_tool_on_targets
MaxWorkers == 2      \* largest determine_worker_count()
MaxSignals == 1      \* SIGINT / SIGTERM deliveries in one run

\* ----------------------------------------------------------- small helpers
Range(s) == { s[i] : i \in DOMAIN s }

SeqsUpTo(S, n) == UNION { [1..k -> S] : k \in 0..n }

FirstIdx(I) == CHOOSE i \in I : \A j \in I : i <= j

\* all(seq): stops at the first element that is not "True"
AllOf(rs) ==
    LET bad == { i \in DOMAIN rs : rs[i] # "True" }
    IN  IF bad = {} THEN "True" ELSE rs[FirstIdx(bad)]

\* any(seq): stops at the first element that is not "False"
AnyOf(rs) ==
    LET hit == { i \in DOMAIN rs : rs[i] # "False" }
    IN  IF hit = {} THEN "False" ELSE rs[FirstIdx(hit)]

\* a and b, b evaluated only when a is "True"
AndThen(a, b) == IF a = "True" THEN b ELSE a

Verdict(b) == IF b THEN "True" ELSE "False"

\* ---------------------------------------------------------- dynamic values
VNone == <<"none", <<>>>>
VBool(b) == <<"bool", <<b>>>>
VInt(n) == <<"int", <<n>>>>
VFloat(n) == <<"float", <<n>>>>
VStr(s) == <<"str", <<s>>>>
VList(items) == <<"list", items>>
VTuple(items) == <<"tuple", items>>
\* a dict is its items() in insertion order: a sequence of <<key, value>>
VDict(items) == <<"dict", items>>
\* a class object, and an instance of a user class
VClass(name) == <<"class", <<name>>>>
VInst(name) == <<"inst", <<name>>>>

Atoms ==
    { VNone, VBool(TRUE), VInt(1), VInt(123), VFloat(1), VStr("abc"), VStr("ghi"),
      VClass("A"), VClass("int"), VInst("A"), VInst("Package") }

Elems == { VInt(123), VStr("abc"), VClass("int") }

DictKeys == { VStr("name"), VStr("version"), VStr("extra") }

DictVals == { VStr("abc"), VInt(123) }

DictItems ==
    { s \in SeqsUpTo(DictKeys \X DictVals, MaxLen) :
        \A i, j \in DOMAIN s : i # j => s[i][1] # s[j][1] }

Values ==
    Atoms
    \cup { VList(s) : s \in SeqsUpTo(Elems, MaxLen) }
    \cup { VTuple(s) : s \in SeqsUpTo(Elems, MaxLen) }
    \cup { VDict(s) : s \in DictItems }

\* type(value).__name__
TypeName(v) ==
    CASE v[1] = "none" -> "NoneType"
      [] v[1] = "class" -> "type"
      [] v[1] = "inst" -> v[2][1]
      [] OTHER -> v[1]

\* the classes a class is a subclass of (itself included)
Supers(c) ==
    CASE c = "bool" -> {"bool", "int"}
      [] c = "list" -> {"list", "Sequence"}
      [] c = "tuple" -> {"tuple", "Sequence"}
      [] c = "str" -> {"str", "Sequence"}
      [] c = "dict" -> {"dict", "Mapping"}
      [] OTHER -> {c}

\* isinstance(v, classes) for a set of class names
IsInstance(v, classes) == Supers(TypeName(v)) \cap classes # {}

\* the number a numeric value compares as (True == 1 == 1.0)
IsNumeric(v) == v[1] \in {"bool", "int", "float"}

NumOf(v) == IF v[1] = "bool" THEN (IF v[2][1] THEN 1 ELSE 0) ELSE v[2][1]

\* a == b as the interpreter evaluates it
PyEq(a, b) ==
    IF IsNumeric(a) /\ IsNumeric(b) THEN NumOf(a) = NumOf(b) ELSE a = b

\* k in d, d[k] and len for a dict value
DictHas(v, k) == \E i \in DOMAIN v[2] : v[2][i][1] = k

\* ------------------------------------------------------- type descriptors
Any == <<"Any", <<>>>>
Class(name) == <<"Class", <<name>>>>
Dataclass(name) == <<"Dataclass", <<name>>>>
TypedDict(name) == <<"TypedDict", <<name>>>>
NewType(name) == <<"NewType", <<name>>>>
Union(members) == <<"Union", members>>
Literal(vals) == <<"Literal", vals>>
InitVar(args) == <<"InitVar", args>>
List(args) == <<"List", args>>
Sequence(args) == <<"Sequence", args>>
Dict(args) == <<"Dict", args>>
Mapping(args) == <<"Mapping", args>>
Tuple(args) == <<"Tuple", args>>
Type(args) == <<"Type", args>>
Required(d) == <<"Required", <<d>>>>
\* the two special members of a tuple's __args__
Ellipsis == <<"...", <<>>>>
EmptyArgs == <<"()", <<>>>>

\* an object handed in as a type that is no class: None itself, and the
\* ForwardRef typing leaves in List['Foo']
NotAType(repr) == <<"Object", <<repr>>>>
PyNone == NotAType("None")
ForwardRefFoo == NotAType("ForwardRef('Foo')")
NonTypes == { "None", "ForwardRef('Foo')" }
\* a string annotation naming nothing the module defines
Unresolved(name) == <<"Unresolved", <<name>>>>

int == Class("int")
str == Class("str")
bool == Class("bool")
float == Class("float")
complex == Class("complex")
NoneType == Class("NoneType")
A == Class("A")
Optional(d) == Union(<<d, NoneType>>)

\* ---------------------------------------- the declared (nominal) types
\* class C(TypedDict, total=...): __total__ and __annotations__ in order
TypedDictExample == TypedDict("TypedDictExample")
TypedDictReq == TypedDict("TypedDictReq")
TypedDictTotal == TypedDict("TypedDictTotal")
TypedDictClosed == TypedDict("TypedDictClosed")
TypedDictNode == TypedDict("TypedDictNode")
TypedDictBad == TypedDict("TypedDictBad")

Total(name) == name \in {"TypedDictTotal", "TypedDictClosed"}

Annotations(name) ==
    CASE name = "TypedDictExample" -> << <<"name", str>>, <<"version", str>> >>
      [] name = "TypedDictReq" -> << <<"name", Required(str)>>, <<"version", str>> >>
      [] name = "TypedDictTotal" -> << <<"name", Required(str)>>, <<"version", str>> >>
      [] name = "TypedDictClosed" -> << <<"version", str>> >>
      [] name = "TypedDictNode" -> << <<"next", TypedDictNode>> >>
      [] name = "TypedDictBad" -> << <<"x", Unresolved("Missing")>> >>
      [] name = "BadDC" -> << <<"x", Unresolved("Missing")>> >>
      \* a dataclass whose field refers to the dataclass itself
      [] name = "Package" -> << <<"name", str>>, <<"parent", Optional(Dataclass("Package"))>> >>
      [] OTHER -> << >>

\* NewType(name, tp).__supertype__
Supertype(name) == str

\* typing.get_type_hints raises NameError when it evaluates such a string
HintsRaise(name) ==
    \E i \in DOMAIN Annotations(name) : Annotations(name)[i][2][1] = "Unresolved"

\* typing.get_type_hints(type_, include_extras): without include_extras the
\* Required[...] wrapper is stripped from every annotation
GetTypeHints(name, include_extras) ==
    LET ann == Annotations(name)
    IN  [ i \in DOMAIN ann |->
            IF ~include_extras /\ ann[i][2][1] = "Required"
            THEN <<ann[i][1], ann[i][2][2][1]>>
            ELSE ann[i] ]

\* ------------------------------------------- classification of descriptors
\* type_.__origin__ of a typing alias
extract_origin_collection(type_) ==
    CASE type_[1] = "List" -> "list"
      [] type_[1] = "Dict" -> "dict"
      [] type_[1] = "Tuple" -> "tuple"
      [] type_[1] = "Type" -> "type"
      [] OTHER -> type_[1]

is_generic(type_) ==
    type_[1] \in {"Union", "Literal", "Required", "List", "Sequence", "Dict",
                  "Mapping", "Tuple", "Type"}

is_union(type_) == is_generic(type_) /\ type_[1] = "Union"

is_typed_dict(type_) == type_[1] = "TypedDict"

is_literal(type_) == is_generic(type_) /\ type_[1] = "Literal"

is_required(type_) == is_generic(type_) /\ type_[1] = "Required"

is_new_type(type_) == type_[1] = "NewType"

extract_new_type(type_) == Supertype(type_[2][1])

is_init_var(type_) == type_[1] = "InitVar"

\* InitVar[t].type, or Any for the bare InitVar
extract_init_var(type_) == IF type_[2] = << >> THEN Any ELSE type_[2][1]

\* issubclass(origin, typing.Collection)
is_generic_collection(type_) ==
    /\ is_generic(type_)
    /\ Supers(extract_origin_collection(type_))
         \cap {"list", "tuple", "dict", "Mapping", "Sequence"} # {}

\* type_.__args__: an alias without arguments has none (the defaults), and
\* the empty tuple's () is kept as the one argument EmptyArgs
extract_generic(type_, defaults) ==
    IF type_[2] = << >> THEN defaults ELSE type_[2]

is_subclass(sub_type, base_type) ==
    IF is_generic_collection(sub_type)
    THEN base_type \in Supers(extract_origin_collection(sub_type))
    ELSE sub_type[1] = "Class" /\ base_type \in Supers(sub_type[2][1])

is_tuple(type_) == is_subclass(type_, "tuple")

is_type(type_) == type_[1] = "Type"

is_dataclass(type_) == type_[1] = "Dataclass"

\* type_ in VALIDATORS compares descriptors with ==: a Union equals any
\* Union of the same members and a Literal any Literal of the same values,
\* whatever their order; every other alias compares origin and arguments,
\* and classes, NewTypes and InitVars are their own keys
RECURSIVE Key(_)
Key(type_) ==
    CASE type_[1] = "Union" -> <<"Union", { Key(m) : m \in Range(type_[2]) }>>
      [] type_[1] = "Literal" -> <<"Literal", Range(type_[2])>>
      [] type_[1] \in {"List", "Sequence", "Dict", "Mapping", "Tuple", "Type"} ->
            <<type_[1], [ i \in DOMAIN type_[2] |-> Key(type_[2][i]) ]>>
      [] OTHER -> type_

\* ------------------------------------------------- the compiled predicates
\* Each lambda of get_validator / typeddict_validator with what it closes over.
LambdaTrue == <<"true">>
LambdaAny(validators) == <<"any", validators>>
LambdaTypedDict(total, required_keys, validators) ==
    <<"typeddict", total, required_keys, validators>>
LambdaIn(generic) == <<"in", generic>>
LambdaIsInstance(classes) == <<"isinstance", classes>>
LambdaMapping(origin, kv, vv) == <<"mapping", origin, kv, vv>>
LambdaTupleEmpty(origin) == <<"tuple_empty", origin>>
\* a container check that forgets the elements
LambdaAllItems_untyped(origin, v) == <<"isinstance", {origin}>>
LambdaAllItems(origin, v) == <<"all_items", origin, v>>
LambdaTupleFixed(origin, validators) == <<"tuple_fixed", origin, validators>>
LambdaIsType == <<"is_type">>
LambdaIsSubtype(bound) == <<"is_subtype", bound>>

\* iterating a value: the characters of a str, the items of a list or tuple
Items(value) ==
    IF value[1] = "str"
    THEN (CASE value[2][1] = "abc" -> <<VStr("a"), VStr("b"), VStr("c")>>
            [] value[2][1] = "ghi" -> <<VStr("g"), VStr("h"), VStr("i")>>
            [] OTHER -> <<value>>)
    ELSE value[2]

\* issubclass(cls, bound) for the class named cls: typing answers for a
\* Union member by member and for an alias without arguments by its origin,
\* Any has no subclasses, and every other alias raises TypeError
RECURSIVE IsSubclass(_, _)
IsSubclass(cls, bound) ==
    CASE bound[1] \in {"Class", "Dataclass"} -> Verdict(bound[2][1] \in Supers(cls))
      [] bound[1] = "Union" ->
            AnyOf([ i \in DOMAIN bound[2] |-> IsSubclass(cls, bound[2][i]) ])
      [] bound[1] = "Any" -> "False"
      [] bound[1] \in {"List", "Sequence", "Dict", "Mapping", "Tuple", "Type"}
           /\ bound[2] = << >> ->
            Verdict(extract_origin_collection(bound) \in Supers(cls))
      [] OTHER -> "TypeError"

\* validators[k] of typeddict_validator, for a key of the value
HasField(validators, k) == \E i \in DOMAIN validators : VStr(validators[i][1]) = k

FieldOf(validators, k) ==
    validators[CHOOSE i \in DOMAIN validators : VStr(validators[i][1]) = k][2]

\* predicate(value)
RECURSIVE Apply(_, _)
Apply(p, value) ==
    CASE p[1] = "true" -> "True"
      [] p[1] = "any" -> AnyOf([ i \in DOMAIN p[2] |-> Apply(p[2][i], value) ])
      [] p[1] = "typeddict" ->
            AndThen(Verdict(IsInstance(value, {"Mapping"})),
            AndThen(Verdict(\A k \in p[3] : DictHas(value, VStr(k))),
                    AllOf([ i \in DOMAIN value[2] |->
                        LET k == value[2][i][1]
                            v == value[2][i][2]
                        IN  IF p[2]
                            THEN (IF HasField(p[4], k) THEN Apply(FieldOf(p[4], k), v) ELSE "False")
                            ELSE (IF ~HasField(p[4], k) THEN "True" ELSE Apply(FieldOf(p[4], k), v)) ])))
      [] p[1] = "in" -> Verdict(\E i \in DOMAIN p[2] : PyEq(p[2][i], value))
      \* isinstance() raises TypeError when its second argument is no type
      [] p[1] = "isinstance" ->
            IF p[2] \cap NonTypes # {} THEN "TypeError"
            ELSE Verdict(IsInstance(value, p[2]))
      [] p[1] = "mapping" ->
            AndThen(Verdict(IsInstance(value, {p[2]})),
                    AllOf([ i \in DOMAIN value[2] |->
                        AndThen(Apply(p[3], value[2][i][1]), Apply(p[4], value[2][i][2])) ]))
      [] p[1] = "tuple_empty" ->
            AndThen(Verdict(IsInstance(value, {p[2]})), Verdict(Len(value[2]) = 0))
      [] p[1] = "all_items" ->
            AndThen(Verdict(IsInstance(value, {p[2]})),
                    AllOf([ i \in DOMAIN Items(value) |-> Apply(p[3], Items(value)[i]) ]))
      [] p[1] = "tuple_fixed" ->
            AndThen(Verdict(IsInstance(value, {p[2]})),
            AndThen(Verdict(Len(value[2]) = Len(p[3])),
                    AllOf([ i \in DOMAIN p[3] |-> Apply(p[3][i], value[2][i]) ])))
      [] p[1] = "is_type" -> Verdict(value[1] = "class")
      [] p[1] = "is_subtype" ->
            AndThen(Verdict(value[1] = "class"), IsSubclass(value[2][1], p[2]))
      [] OTHER -> "TypeError"

\* ------------------------------------------------------------ the compiler
\* get_validator() is taken in two parts: the descriptors it hands to the
\* nested validator() calls, in call order, and the predicate it returns
\* once those calls have returned the predicates vs.

\* the hints typeddict_validator compiles, in declaration order
TypedDictCalls(type_) ==
    LET hints == GetTypeHints(type_[2][1], FALSE)
    IN  [ i \in DOMAIN hints |-> hints[i][2] ]

\* typeddict_validator taking every record for an open one
typeddict_validator_open(type_, vs) ==
    LET extras == GetTypeHints(type_[2][1], TRUE)
        required_keys == { extras[i][1] : i \in { j \in DOMAIN extras : is_required(extras[j][2]) } }
        hints == GetTypeHints(type_[2][1], FALSE)
        validators == [ i \in DOMAIN hints |-> <<hints[i][1], vs[i]>> ]
    IN  LambdaTypedDict(FALSE, required_keys, validators)

\* typeddict_validator taking every record for a closed one
typeddict_validator_closed(type_, vs) ==
    LET extras == GetTypeHints(type_[2][1], TRUE)
        required_keys == { extras[i][1] : i \in { j \in DOMAIN extras : is_required(extras[j][2]) } }
        hints == GetTypeHints(type_[2][1], FALSE)
        validators == [ i \in DOMAIN hints |-> <<hints[i][1], vs[i]>> ]
    IN  LambdaTypedDict(TRUE, required_keys, validators)

\* typeddict_validator requiring every declared field of a total record
typeddict_validator_total_requires(type_, vs) ==
    LET extras == GetTypeHints(type_[2][1], TRUE)
        required_keys == { extras[i][1] : i \in { j \in DOMAIN extras :
                              Total(type_[2][1]) \/ is_required(extras[j][2]) } }
        hints == GetTypeHints(type_[2][1], FALSE)
        validators == [ i \in DOMAIN hints |-> <<hints[i][1], vs[i]>> ]
    IN  LambdaTypedDict(Total(type_[2][1]), required_keys, validators)

typeddict_validator(type_, vs) ==
    LET extras == GetTypeHints(type_[2][1], TRUE)
        required_keys == { extras[i][1] : i \in { j \in DOMAIN extras : is_required(extras[j][2]) } }
        hints == GetTypeHints(type_[2][1], FALSE)
        validators == [ i \in DOMAIN hints |-> <<hints[i][1], vs[i]>> ]
    IN  LambdaTypedDict(Total(type_[2][1]), required_keys, validators)

\* which branch of get_validator a descriptor takes (first match wins)
Branch(type_) ==
    CASE type_ = Any -> "any"
      [] is_union(type_) -> "union"
      [] is_typed_dict(type_) -> "typed_dict"
      [] is_new_type(type_) -> "new_type"
      [] is_literal(type_) -> "literal"
      [] is_init_var(type_) -> "init_var"
      [] is_generic_collection(type_) -> "collection"
      [] is_type(type_) -> "type"
      [] is_dataclass(type_) -> "dataclass"
      [] OTHER -> "scalar"

IsMappingOrigin(type_) == "Mapping" \in Supers(extract_origin_collection(type_))

IsEmptyTuple(generic) == Len(generic) = 1 /\ generic[1] = EmptyArgs

\* the variadic test without its look at the second argument
IsVariadicTuple_any2(generic) == Len(generic) = 2

IsVariadicTuple(generic) == Len(generic) = 2 /\ generic[2] = Ellipsis

Calls(type_) ==
    LET b == Branch(type_)
        generic == extract_generic(type_, << >>)
    IN  CASE b = "union" -> generic
          [] b = "typed_dict" -> TypedDictCalls(type_)
          [] b = "new_type" -> <<extract_new_type(type_)>>
          [] b = "init_var" -> <<extract_init_var(type_)>>
          [] b = "collection" ->
                IF generic = << >> THEN << >>
                ELSE IF IsMappingOrigin(type_) THEN extract_generic(type_, <<Any, Any>>)
                ELSE IF is_tuple(type_)
                     THEN (IF IsEmptyTuple(generic) THEN << >>
                           ELSE IF IsVariadicTuple(generic) THEN <<generic[1]>>
                           ELSE generic)
                ELSE <<extract_generic(type_, <<Any>>)[1]>>
          [] OTHER -> << >>

\* get_validator without the widening of int to float
get_validator_nowiden(type_, vs) ==
    LET b == Branch(type_)
        generic == extract_generic(type_, << >>)
        origin == extract_origin_collection(type_)
    IN  CASE b = "any" -> LambdaTrue
          [] b = "union" -> LambdaAny(vs)
          [] b = "typed_dict" -> typeddict_validator(type_, vs)
          [] b = "new_type" -> vs[1]
          [] b = "literal" -> LambdaIn(generic)
          [] b = "init_var" -> vs[1]
          [] b = "collection" ->
                IF generic = << >> THEN LambdaIsInstance({origin})
                ELSE IF IsMappingOrigin(type_) THEN LambdaMapping(origin, vs[1], vs[2])
                ELSE IF is_tuple(type_)
                     THEN (IF IsEmptyTuple(generic) THEN LambdaTupleEmpty(origin)
                           ELSE IF IsVariadicTuple(generic) THEN LambdaAllItems(origin, vs[1])
                           ELSE LambdaTupleFixed(origin, vs))
                ELSE LambdaAllItems(origin, vs[1])
          [] b = "type" ->
                IF generic = << >> THEN LambdaIsType ELSE LambdaIsSubtype(generic[1])
          [] b = "dataclass" -> LambdaIsInstance({type_[2][1]})
          [] type_ = complex -> LambdaIsInstance({"int", "float", "complex"})
          [] type_ = float -> LambdaIsInstance({"float"})
          [] OTHER -> LambdaIsInstance({type_[2][1]})

get_validator(type_, vs) ==
    LET b == Branch(type_)
        generic == extract_generic(type_, << >>)
        origin == extract_origin_collection(type_)
    IN  CASE b = "any" -> LambdaTrue
          [] b = "union" -> LambdaAny(vs)
          [] b = "typed_dict" -> typeddict_validator(type_, vs)
          [] b = "new_type" -> vs[1]
          [] b = "literal" -> LambdaIn(generic)
          [] b = "init_var" -> vs[1]
          [] b = "collection" ->
                IF generic = << >> THEN LambdaIsInstance({origin})
                ELSE IF IsMappingOrigin(type_) THEN LambdaMapping(origin, vs[1], vs[2])
                ELSE IF is_tuple(type_)
                     THEN (IF IsEmptyTuple(generic) THEN LambdaTupleEmpty(origin)
                           ELSE IF IsVariadicTuple(generic) THEN LambdaAllItems(origin, vs[1])
                           ELSE LambdaTupleFixed(origin, vs))
                ELSE LambdaAllItems(origin, vs[1])
          [] b = "type" ->
                IF generic = << >> THEN LambdaIsType ELSE LambdaIsSubtype(generic[1])
          [] b = "dataclass" -> LambdaIsInstance({type_[2][1]})
          [] type_ = complex -> LambdaIsInstance({"int", "float", "complex"})
          [] type_ = float -> LambdaIsInstance({"int", "float"})
          [] OTHER -> LambdaIsInstance({type_[2][1]})

\* dataclass_field_validators: the hints it compiles and the table it returns
FieldCalls(type_) ==
    LET hints == GetTypeHints(type_[2][1], FALSE)
    IN  [ i \in DOMAIN hints |-> hints[i][2] ]

\* a table that leaves out the last declared field
dataclass_field_validators_short(type_, vs) ==
    LET hints == GetTypeHints(type_[2][1], FALSE)
    IN  <<"table", [ i \in 1..(Len(hints) - 1) |-> <<hints[i][1], vs[i]>> ]>>

dataclass_field_validators(type_, vs) ==
    LET hints == GetTypeHints(type_[2][1], FALSE)
    IN  <<"table", [ i \in DOMAIN hints |-> <<hints[i][1], vs[i]>> ]>>

\* ------------------------------------------------------ the calls explored
U1 == Union(<<Type(<<List(<<int>>)>>), Type(<< >>)>>)
U2 == Union(<<Type(<< >>), Type(<<List(<<int>>)>>)>>)
Package == Dataclass("Package")

Targets ==
    { Any, bool, int, float, A, Package,
      Optional(int), Union(<<str, int>>), Union(<<int, str>>), U1, U2,
      TypedDictExample, TypedDictReq, TypedDictTotal, TypedDictClosed, TypedDictNode,
      Tuple(<<EmptyArgs>>), Tuple(<<int>>), Tuple(<<int, Ellipsis>>), Tuple(<<int, str>>),
      Literal(<<VStr("abc"), VInt(1)>>),
      Type(<< >>), Type(<<A>>), Type(<<List(<<int>>)>>),
      List(<< >>), List(<<str>>), Dict(<<str, int>>),
      NewType("Name"), InitVar(<<int>>) }

\* descriptors raced by the concurrent program
RaceTargets ==
    { int, U1, Optional(int), TypedDictTotal, Tuple(<<int, str>>),
      Tuple(<<U1, U2>>), Dict(<<str, int>>), Type(<<List(<<int>>)>>) }

Threads == 1..NThreads

\* ------------------------------------------------------------------- state
VARIABLES
    VALIDATORS,   \* the module's dict: Key(type_) -> predicate
    FIELDS,       \* the lru_cache of dataclass_field_validators: type_ -> table
    stack,        \* per thread: the frames of validator() /
                  \* dataclass_field_validators() in progress, innermost last
    status,       \* per thread: "idle", "running", "returned", "applied", "raised"
    call,         \* per thread: the top-level call made last, <<function, type_>>
    ret,          \* per thread: what that call returned or raised
    value,        \* per thread: the value the returned predicate was applied to
    verdict,      \* per thread: what that application gave
    ncalls,       \* top-level calls made so far
    built,        \* how often get_validator ran for each key (history)
    \* clippy.py, run_tool_on_targets
    futures,      \* the list `futures`: one record per run_subprocess task
    semaphore,    \* asyncio.Semaphore._value
    main,         \* the coroutine run_tool_on_targets itself
    signals       \* how often the loop ran sigterm_handler

validate_vars ==
    <<VALIDATORS, FIELDS, stack, status, call, ret, value, verdict, ncalls, built>>

clippy_vars == <<futures, semaphore, main, signals>>

vars == <<VALIDATORS, FIELDS, stack, status, call, ret, value, verdict, ncalls, built,
          futures, semaphore, main, signals>>

\* Optional[int]: None, or an int
None == << >>
Some(n) == <<n>>

Nothing == <<"nothing">>
RecursionError == <<"RecursionError">>
Empty == [ k \in {} |-> Nothing ]

Frame(fn, type_) ==
    [ fn |-> fn, type_ |-> type_, pc |-> "lookup", vs |-> << >>, res |-> Nothing ]

Top(t) == stack[t][Len(stack[t])]

SetTop(t, f) == [ stack EXCEPT ![t] = [ @ EXCEPT ![Len(@)] = f ] ]

Init ==
    /\ VALIDATORS = Empty
    /\ FIELDS = Empty
    /\ stack = [ t \in Threads |-> << >> ]
    /\ status = [ t \in Threads |-> "idle" ]
    /\ call = [ t \in Threads |-> Nothing ]
    /\ ret = [ t \in Threads |-> Nothing ]
    /\ value = [ t \in Threads |-> Nothing ]
    /\ verdict = [ t \in Threads |-> "none" ]
    /\ ncalls = 0
    /\ built = Empty
    /\ futures = << >>
    /\ semaphore = 0
    /\ main = [ pc |-> "idle", workers |-> 0, seen |-> 0, ret |-> None, exc |-> "" ]
    /\ signals = 0

\* a store that drops the entries of every other key
StoreAlone(cache, k, p) == [ x \in {k} |-> p ]

\* VALIDATORS[type_] = p
Store(cache, k, p) ==
    [ x \in DOMAIN cache \cup {k} |-> IF x = k THEN p ELSE cache[x] ]

\* a lookup that never finds its key
NeverCached(cache, k) == FALSE

\* type_ in VALIDATORS
Cached(cache, k) == k \in DOMAIN cache

\* one more run of get_validator counted for a key
Bump(count, k) ==
    [ x \in DOMAIN count \cup {k} |->
        IF x = k THEN (IF k \in DOMAIN count THEN count[k] + 1 ELSE 1) ELSE count[x] ]

\* a top-level call of validator(type_) or dataclass_field_validators(type_)
Enter(t, fn, type_) ==
    /\ stack' = [ stack EXCEPT ![t] = <<Frame(fn, type_)>> ]
    /\ status' = [ status EXCEPT ![t] = "running" ]
    /\ call' = [ call EXCEPT ![t] = <<fn, type_>> ]
    /\ ret' = [ ret EXCEPT ![t] = Nothing ]
    /\ value' = [ value EXCEPT ![t] = Nothing ]
    /\ verdict' = [ verdict EXCEPT ![t] = "none" ]
    /\ ncalls' = ncalls + 1
    /\ UNCHANGED <<VALIDATORS, FIELDS, built>>
    /\ UNCHANGED clippy_vars

Call(t) ==
    /\ status[t] # "running"
    /\ ncalls < MaxCalls
    /\ \/ \E type_ \in Targets : Enter(t, "validator", type_)
       \/ Enter(t, "dataclass_field_validators", Package)

\* `if type_ not in VALIDATORS`, and the cache probe of lru_cache
Lookup(t) ==
    /\ status[t] = "running"
    /\ Top(t).pc = "lookup"
    /\ LET f == Top(t)
           k == Key(f.type_)
       IN  IF f.fn = "validator"
           THEN IF Cached(VALIDATORS, k)
                THEN /\ stack' = SetTop(t, [ f EXCEPT !.pc = "return" ])
                     /\ built' = built
                ELSE /\ stack' = SetTop(t, [ f EXCEPT !.pc = "build" ])
                     /\ built' = Bump(built, k)
           ELSE /\ built' = built
                /\ IF Cached(FIELDS, k)
                   THEN stack' = SetTop(t, [ f EXCEPT !.pc = "return", !.res = FIELDS[k] ])
                   ELSE stack' = SetTop(t, [ f EXCEPT !.pc = "build" ])
    /\ UNCHANGED <<VALIDATORS, FIELDS, status, call, ret, value, verdict, ncalls>>
    /\ UNCHANGED clippy_vars

NestedCalls(f) == IF f.fn = "validator" THEN Calls(f.type_) ELSE FieldCalls(f.type_)

\* the body starts with typing.get_type_hints(type_) and that call raises
HintsFail(f) ==
    /\ f.fn = "dataclass_field_validators" \/ Branch(f.type_) = "typed_dict"
    /\ HintsRaise(f.type_[2][1])

NameError == <<"NameError">>

\* get_type_hints raises NameError, which no frame catches: nothing is stored
ReflectFails(t) ==
    /\ status[t] = "running"
    /\ Top(t).pc = "build"
    /\ HintsFail(Top(t))
    /\ stack' = [ stack EXCEPT ![t] = << >> ]
    /\ status' = [ status EXCEPT ![t] = "raised" ]
    /\ ret' = [ ret EXCEPT ![t] = NameError ]
    /\ UNCHANGED <<VALIDATORS, FIELDS, call, value, verdict, ncalls, built>>
    /\ UNCHANGED clippy_vars

\* the next nested validator(t) call of the body; past the recursion limit
\* the interpreter raises RecursionError, which no frame catches
Descend(t) ==
    /\ status[t] = "running"
    /\ Top(t).pc = "build"
    /\ ~HintsFail(Top(t))
    /\ Len(Top(t).vs) < Len(NestedCalls(Top(t)))
    /\ IF Len(stack[t]) < RecursionLimit
       THEN /\ stack' = [ stack EXCEPT ![t] =
                  Append(@, Frame("validator", NestedCalls(Top(t))[Len(Top(t).vs) + 1])) ]
            /\ UNCHANGED <<status, ret>>
       ELSE /\ stack' = [ stack EXCEPT ![t] = << >> ]
            /\ status' = [ status EXCEPT ![t] = "raised" ]
            /\ ret' = [ ret EXCEPT ![t] = RecursionError ]
    /\ UNCHANGED <<VALIDATORS, FIELDS, call, value, verdict, ncalls, built>>
    /\ UNCHANGED clippy_vars

\* every nested call has returned: the body builds its result
Construct(t) ==
    /\ status[t] = "running"
    /\ Top(t).pc = "build"
    /\ ~HintsFail(Top(t))
    /\ Len(Top(t).vs) = Len(NestedCalls(Top(t)))
    /\ LET f == Top(t)
           r == IF f.fn = "validator" THEN get_validator(f.type_, f.vs)
                ELSE dataclass_field_validators(f.type_, f.vs)
       IN  stack' = SetTop(t, [ f EXCEPT !.pc = "store", !.res = r ])
    /\ UNCHANGED <<VALIDATORS, FIELDS, status, call, ret, value, verdict, ncalls, built>>
    /\ UNCHANGED clippy_vars

\* VALIDATORS[type_] = get_validator(type_), and lru_cache recording a result
StoreResult(t) ==
    /\ status[t] = "running"
    /\ Top(t).pc = "store"
    /\ LET f == Top(t)
       IN  /\ IF f.fn = "validator"
              THEN /\ VALIDATORS' = Store(VALIDATORS, Key(f.type_), f.res)
                   /\ FIELDS' = FIELDS
              ELSE /\ FIELDS' = Store(FIELDS, Key(f.type_), f.res)
                   /\ VALIDATORS' = VALIDATORS
           /\ stack' = SetTop(t, [ f EXCEPT !.pc = "return" ])
    /\ UNCHANGED <<status, call, ret, value, verdict, ncalls, built>>
    /\ UNCHANGED clippy_vars

\* `return VALIDATORS[type_]`; lru_cache returns the result it holds
Return(t) ==
    /\ status[t] = "running"
    /\ Top(t).pc = "return"
    /\ LET f == Top(t)
           r == IF f.fn = "validator" THEN VALIDATORS[Key(f.type_)] ELSE f.res
           n == Len(stack[t])
       IN  IF n = 1
           THEN /\ stack' = [ stack EXCEPT ![t] = << >> ]
                /\ status' = [ status EXCEPT ![t] = "returned" ]
                /\ ret' = [ ret EXCEPT ![t] = r ]
           ELSE /\ stack' = [ stack EXCEPT ![t] =
                      [ i \in 1..(n - 1) |->
                          IF i = n - 1 THEN [ @[i] EXCEPT !.vs = Append(@, r) ] ELSE @[i] ] ]
                /\ UNCHANGED <<status, ret>>
    /\ UNCHANGED <<VALIDATORS, FIELDS, call, value, verdict, ncalls, built>>
    /\ UNCHANGED clippy_vars

\* validator(type_)(v): the returned predicate applied to a value
ApplyPredicate(t) ==
    /\ status[t] = "returned"
    /\ call[t][1] = "validator"
    /\ \E v \in Values :
         /\ value' = [ value EXCEPT ![t] = v ]
         /\ verdict' = [ verdict EXCEPT ![t] = Apply(ret[t], v) ]
    /\ status' = [ status EXCEPT ![t] = "applied" ]
    /\ UNCHANGED <<VALIDATORS, FIELDS, stack, call, ret, ncalls, built>>
    /\ UNCHANGED clippy_vars

\* one step of a call in progress
Compile(t) ==
    \/ Lookup(t)
    \/ Descend(t)
    \/ Construct(t)
    \/ StoreResult(t)
    \/ Return(t)

Step(t) == Compile(t) \/ ApplyPredicate(t)

\* one execution context
Next == Call(1) \/ Step(1)

Spec == Init /\ [][Next]_vars

\* ------------------------------------------- the sequential reference run
\* validator(type_) run to completion by one caller from a given cache:
\* the cache it leaves and the predicate it returns.  Defined for the
\* descriptors whose compilation returns.
RECURSIVE SeqValidator(_, _)
RECURSIVE SeqCalls(_, _, _)
SeqValidator(cache, type_) ==
    LET k == Key(type_)
    IN  IF k \in DOMAIN cache
        THEN [ cache |-> cache, p |-> cache[k] ]
        ELSE LET r == SeqCalls(cache, Calls(type_), << >>)
                 p == get_validator(type_, r.vs)
                 c == [ x \in DOMAIN r.cache \cup {k} |-> IF x = k THEN p ELSE r.cache[x] ]
             IN  [ cache |-> c, p |-> c[k] ]

SeqCalls(cache, types, vs) ==
    IF types = << >>
    THEN [ cache |-> cache, vs |-> vs ]
    ELSE LET r == SeqValidator(cache, Head(types))
         IN  SeqCalls(r.cache, Tail(types), Append(vs, r.p))

\* validator(type_)(value) in a fresh process
Fresh(type_, v) == Apply(SeqValidator(Empty, type_).p, v)

\* ================================================================== claims
\* a thread holds the predicate validator(type_) returned
Holds(t) == status[t] = "returned" /\ call[t][1] = "validator"

Applied(t) == status[t] = "applied"

\* the declaration of a TypedDict as its reader sees it
FieldNames(type_) == { Annotations(type_[2][1])[i][1] : i \in DOMAIN Annotations(type_[2][1]) }

RequiredNames(type_) ==
    { Annotations(type_[2][1])[i][1] :
        i \in { j \in DOMAIN Annotations(type_[2][1]) :
                  Annotations(type_[2][1])[j][2][1] = "Required" } }

FieldType(type_, name) ==
    LET ann == Annotations(type_[2][1])
        a == ann[CHOOSE i \in DOMAIN ann : ann[i][1] = name][2]
    IN  IF a[1] = "Required" THEN a[2][1] ELSE a

IsDeclared(type_, k) == k[1] = "str" /\ k[2][1] \in FieldNames(type_)

\* the verdict of the cached predicate of a declared field on a value
FieldVerdict(type_, k, v) == Apply(VALIDATORS[Key(FieldType(type_, k[2][1]))], v)

DictValues == { v \in Values : v[1] = "dict" }

\* C1: the predicate of a closed TypedDict (total = true) accepts a value
\* only if the value is a mapping, every key in it is a declared field and
\* the value under it satisfies that field's predicate; a mapping with an
\* undeclared key is rejected, and so is one with a declared key whose
\* value has the wrong shape.
C1_ClosedRecord ==
    \A t \in Threads :
        (Holds(t) /\ is_typed_dict(call[t][2]) /\ Total(call[t][2][2][1])) =>
            \A v \in Values :
                LET type_ == call[t][2]
                    r == Apply(ret[t], v)
                IN  /\ r = "True" =>
                          /\ v[1] = "dict"
                          /\ \A i \in DOMAIN v[2] :
                                /\ IsDeclared(type_, v[2][i][1])
                                /\ FieldVerdict(type_, v[2][i][1], v[2][i][2]) = "True"
                    /\ (v[1] = "dict" /\ \E i \in DOMAIN v[2] : ~IsDeclared(type_, v[2][i][1]))
                          => r = "False"
                    /\ (v[1] = "dict" /\ \E i \in DOMAIN v[2] :
                            /\ IsDeclared(type_, v[2][i][1])
                            /\ FieldVerdict(type_, v[2][i][1], v[2][i][2]) = "False")
                          => r = "False"

\* a closed record was given a well-formed field next to an undeclared key
C1_Witness ==
    /\ Applied(1)
    /\ call[1] = <<"validator", TypedDictTotal>>
    /\ value[1] = VDict(<< <<VStr("name"), VStr("abc")>>, <<VStr("extra"), VInt(123)>> >>)
    /\ verdict[1] = "False"

\* the declared items of a dict value, in order
DeclaredItems(type_, v) == SelectSeq(v[2], LAMBDA it : IsDeclared(type_, it[1]))

\* C2: for an open TypedDict (total = false) and a mapping holding every
\* required key, the predicate is true iff every declared key of the value
\* has a value satisfying its field's predicate; adding or removing
\* undeclared keys never changes the verdict.
C2_OpenRecord ==
    \A t \in Threads :
        (Holds(t) /\ is_typed_dict(call[t][2]) /\ ~Total(call[t][2][2][1])) =>
            LET type_ == call[t][2]
            IN  /\ \A v \in DictValues :
                      (\A n \in RequiredNames(type_) : DictHas(v, VStr(n))) =>
                          ((Apply(ret[t], v) = "True") <=>
                              \A i \in DOMAIN v[2] :
                                  IsDeclared(type_, v[2][i][1]) =>
                                      FieldVerdict(type_, v[2][i][1], v[2][i][2]) = "True")
                /\ \A v, w \in DictValues :
                      DeclaredItems(type_, v) = DeclaredItems(type_, w) =>
                          Apply(ret[t], v) = Apply(ret[t], w)

\* an open record accepted a mapping with an undeclared key
C2_Witness ==
    /\ Applied(1)
    /\ call[1] = <<"validator", TypedDictReq>>
    /\ value[1] = VDict(<< <<VStr("name"), VStr("abc")>>, <<VStr("extra"), VInt(123)>> >>)
    /\ verdict[1] = "True"

\* what the predicate asks of one item of the mapping
ItemOK(type_, it) ==
    IF Total(type_[2][1])
    THEN IsDeclared(type_, it[1]) /\ FieldVerdict(type_, it[1], it[2]) = "True"
    ELSE IsDeclared(type_, it[1]) => FieldVerdict(type_, it[1], it[2]) = "True"

\* C3: for a TypedDict of either totality a value that is not a mapping is
\* rejected, a mapping that lacks an explicitly required key is rejected,
\* and no other absence matters: a mapping holding every required key is
\* accepted whenever each of its items is, so a declared field that is not
\* marked Required may be absent even from a closed record.
C3_RequiredKeys ==
    \A t \in Threads :
        (Holds(t) /\ is_typed_dict(call[t][2])) =>
            \A v \in Values :
                LET type_ == call[t][2]
                    r == Apply(ret[t], v)
                IN  /\ v[1] # "dict" => r = "False"
                    /\ (v[1] = "dict" /\ \E n \in RequiredNames(type_) : ~DictHas(v, VStr(n)))
                          => r = "False"
                    /\ (/\ v[1] = "dict"
                        /\ \A n \in RequiredNames(type_) : DictHas(v, VStr(n))
                        /\ \A i \in DOMAIN v[2] : ItemOK(type_, v[2][i]))
                          => r = "True"

\* a closed record accepted a mapping without its field that is not Required
C3_Witness ==
    /\ Applied(1)
    /\ call[1] = <<"validator", TypedDictTotal>>
    /\ value[1] = VDict(<< <<VStr("name"), VStr("abc")>> >>)
    /\ verdict[1] = "True"

\* C4: the predicate of a descriptor, applied to any value at all, gives
\* True or False and never raises.
C4_NeverRaises ==
    \A t \in Threads : Applied(t) => verdict[t] \in {"True", "False"}

\* C5: validator(type_)(value) gives the verdict a fresh process gives,
\* whatever the cache held when type_ was compiled and whichever descriptors,
\* equal ones included, were compiled before it.
C5_SameVerdict ==
    \A t \in Threads : Applied(t) => verdict[t] = Fresh(call[t][2], value[t])

\* C8: every call of validator() and dataclass_field_validators() returns:
\* none recurses until the interpreter gives up.
C8_Terminates ==
    \A t \in Threads : status[t] # "raised" /\ ret[t] # RecursionError

\* the verdict of the cached predicate of a descriptor on a value
Validate(type_, v) == Apply(VALIDATORS[Key(type_)], v)

\* C9: validator(Union[members])(v) is the disjunction of the members'
\* verdicts on v: True as soon as one member accepts v, False when none
\* does.  Optional[int] accepts None and what int accepts, and int alone
\* rejects None.
C9_UnionIsDisjunction ==
    \A t \in Threads :
        (Applied(t) /\ is_union(call[t][2])) =>
            LET members == call[t][2][2]
                v == value[t]
            IN  /\ (\E i \in DOMAIN members : Validate(members[i], v) = "True")
                      => verdict[t] = "True"
                /\ (\A i \in DOMAIN members : Validate(members[i], v) = "False")
                      => verdict[t] = "False"
                /\ verdict[t] = "True"
                      => \E i \in DOMAIN members : Validate(members[i], v) = "True"
                /\ call[t][2] = Optional(int) =>
                      /\ v = VNone => verdict[t] = "True"
                      /\ Validate(int, VNone) = "False"
                      /\ v # VNone => verdict[t] = Validate(int, v)

\* the three regimes of a Tuple descriptor, read off its arguments
Regime(type_) ==
    IF type_[2] = <<EmptyArgs>> THEN "Empty"
    ELSE IF Len(type_[2]) = 2 /\ type_[2][2] = Ellipsis THEN "Variadic"
    ELSE "Fixed"

\* C10: the predicate of Tuple[()] is true iff the value is a tuple without
\* elements; of Tuple[d0, .., dn] iff it is a tuple of exactly n+1 elements,
\* each satisfying the descriptor at its position; of Tuple[d, ...] iff it
\* is a tuple whose elements all satisfy d.  A value that is not a tuple,
\* and for the fixed shape a tuple of another length, is rejected.
C10_TupleRegimes ==
    \A t \in Threads :
        (Holds(t) /\ call[t][2][1] = "Tuple" /\ call[t][2][2] # << >>) =>
            \A v \in Values :
                LET type_ == call[t][2]
                    args == type_[2]
                    r == Apply(ret[t], v)
                    expected ==
                        /\ v[1] = "tuple"
                        /\ CASE Regime(type_) = "Empty" -> Len(v[2]) = 0
                             [] Regime(type_) = "Variadic" ->
                                  \A i \in DOMAIN v[2] : Validate(args[1], v[2][i]) = "True"
                             [] OTHER ->
                                  /\ Len(v[2]) = Len(args)
                                  /\ \A i \in DOMAIN args : Validate(args[i], v[2][i]) = "True"
                IN  /\ (r = "True") <=> expected
                    /\ v[1] # "tuple" => r = "False"
                    /\ (v[1] = "tuple" /\ Regime(type_) = "Fixed" /\ Len(v[2]) # Len(args))
                          => r = "False"

\* a tuple longer than the fixed shape was rejected though its prefix matches
C10_Witness ==
    /\ Applied(1)
    /\ call[1] = <<"validator", Tuple(<<int>>)>>
    /\ value[1] = VTuple(<<VInt(123), VInt(123)>>)
    /\ verdict[1] = "False"

\* every entry of a cache is still there, unchanged, after the step
Kept(cache, cache2) ==
    \A k \in DOMAIN cache : k \in DOMAIN cache2 /\ cache2[k] = cache[k]

\* C6: in one execution context both caches start empty and only grow: no
\* step removes a key or replaces what is stored under it; only the store of
\* a call that missed adds an entry; get_validator never runs again for a
\* key that is cached, a call for it returning the stored predicate; and
\* applying a predicate changes neither VALIDATORS nor the field table.
C6_AppendOnly ==
    /\ VALIDATORS = Empty /\ FIELDS = Empty
    /\ [][ /\ Kept(VALIDATORS, VALIDATORS') /\ Kept(FIELDS, FIELDS')
           /\ \A k \in DOMAIN VALIDATORS : built'[k] = built[k]
           /\ (VALIDATORS' # VALIDATORS \/ FIELDS' # FIELDS) =>
                 \E t \in Threads : status[t] = "running" /\ Top(t).pc = "store"
           /\ \A t \in Threads :
                 /\ (status'[t] = "returned" /\ status[t] = "running" /\ call[t][1] = "validator")
                       => ret'[t] = VALIDATORS[Key(call[t][2])]
                 /\ (status[t] = "returned" /\ status'[t] = "applied")
                       => VALIDATORS' = VALIDATORS /\ FIELDS' = FIELDS
         ]_vars

\* a descriptor equal to a cached one was compiled and got the stored
\* predicate, which was then applied
C6_Witness ==
    /\ Applied(1)
    /\ call[1] = <<"validator", Union(<<int, str>>)>>
    /\ ret[1] = LambdaAny(<<LambdaIsInstance({"str"}), LambdaIsInstance({"int"})>>)
    /\ built[Key(Union(<<str, int>>))] = 1

\* ------------------------------------------------- the concurrent program
\* Every thread calls validator(type_) once, all for the same descriptor,
\* and their steps interleave freely: nothing locks VALIDATORS.
RaceCall(t) ==
    /\ status[t] = "idle"
    /\ \E type_ \in RaceTargets :
         /\ \A u \in Threads : call[u] \in {Nothing, <<"validator", type_>>}
         /\ Enter(t, "validator", type_)

NextConc == \E t \in Threads : RaceCall(t) \/ Compile(t)

SpecConc == Init /\ [][NextConc]_vars

\* two predicates that give the same verdict on every value
Agree(p, q) == p = q \/ \A v \in Values : Apply(p, v) = Apply(q, v)

\* C7: when validator(type_) is raced by several threads, under every
\* interleaving no caller fails, every caller gets a predicate agreeing on
\* all values with the one a single caller gets, everything ever stored
\* under any key agrees with what the single caller stores there, and no
\* entry of a key is lost.
C7_RaceIsBenign ==
    /\ [](\A t \in Threads :
            call[t] # Nothing =>
              LET ref == SeqValidator(Empty, call[t][2])
              IN  /\ status[t] # "raised"
                  /\ status[t] \in {"returned", "applied"} => Agree(ret[t], ref.p)
                  /\ \A k \in DOMAIN VALIDATORS :
                        k \in DOMAIN ref.cache /\ Agree(VALIDATORS[k], ref.cache[k]))
    /\ [][DOMAIN VALIDATORS \subseteq DOMAIN VALIDATORS']_vars

\* two threads both missed, both built and both stored the same key, the
\* second store overwriting the first, and both have returned
C7_Witness ==
    /\ status[1] = "returned" /\ status[2] = "returned"
    /\ call[1] = <<"validator", Tuple(<<U1, U2>>)>>
    /\ built[Key(Tuple(<<U1, U2>>))] >= 2
    /\ built[Key(U1)] >= 2

\* ------------------------------------------- containers and scalars alone
\* 1j, a value whose class is complex
VComplex(n) == <<"complex", <<n>>>>

DataElems == { VInt(123), VStr("abc") }

DataKeys == { VStr("abc"), VInt(123) }

DataItems ==
    { s \in SeqsUpTo(DataKeys \X DictVals, MaxLen) :
        \A i, j \in DOMAIN s : i # j => s[i][1] # s[j][1] }

DataValues ==
    { VNone, VBool(TRUE), VInt(1), VFloat(1), VComplex(1), VStr("abc"), VInst("A") }
    \cup { VList(s) : s \in SeqsUpTo(DataElems, MaxLen) }
    \cup { VTuple(s) : s \in SeqsUpTo(DataElems, MaxLen) }
    \cup { VDict(s) : s \in DataItems }

DataTargets ==
    { List(<< >>), List(<<str>>), List(<<int>>), Sequence(<<str>>),
      Dict(<< >>), Dict(<<str, int>>), Mapping(<< >>), Mapping(<<str, int>>),
      bool, int, float, complex, str, NoneType, A }

CallData(t) ==
    /\ status[t] # "running"
    /\ ncalls < MaxCalls
    /\ \E type_ \in DataTargets : Enter(t, "validator", type_)

ApplyData(t) ==
    /\ status[t] = "returned"
    /\ call[t][1] = "validator"
    /\ \E v \in DataValues :
         /\ value' = [ value EXCEPT ![t] = v ]
         /\ verdict' = [ verdict EXCEPT ![t] = Apply(ret[t], v) ]
    /\ status' = [ status EXCEPT ![t] = "applied" ]
    /\ UNCHANGED <<VALIDATORS, FIELDS, stack, call, ret, ncalls, built>>
    /\ UNCHANGED clippy_vars

NextData == CallData(1) \/ Compile(1) \/ ApplyData(1)

SpecData == Init /\ [][NextData]_vars

\* the classes of the values a container descriptor takes
Kind(type_) ==
    CASE type_[1] = "List" -> {"list"}
      [] type_[1] = "Sequence" -> {"list", "tuple", "str"}
      [] type_[1] \in {"Dict", "Mapping"} -> {"dict"}
      [] OTHER -> {}

IsContainer(type_) == type_[1] \in {"List", "Sequence", "Dict", "Mapping"}

\* C11: the predicate of List[T] / Sequence[T] is true iff the value is of
\* the container's kind and every element satisfies T's predicate, so one
\* bad element at any position rejects and two containers of the same kind
\* with the same set of elements get the same verdict; of a bare List,
\* Dict or Mapping iff the value is of the kind, whatever it holds; of
\* Dict[K, V] / Mapping[K, V] iff the value is a dict and in every entry the
\* key satisfies K's predicate and the value satisfies V's.
C11_Containers ==
    (Holds(1) /\ IsContainer(call[1][2])) =>
        LET type_ == call[1][2]
            args == type_[2]
            Good(v) ==
                /\ TypeName(v) \in Kind(type_)
                /\ \/ args = << >>
                   \/ /\ Len(args) = 1
                      /\ \A i \in DOMAIN Items(v) : Validate(args[1], Items(v)[i]) = "True"
                   \/ /\ Len(args) = 2
                      /\ \A i \in DOMAIN v[2] :
                            /\ Validate(args[1], v[2][i][1]) = "True"
                            /\ Validate(args[2], v[2][i][2]) = "True"
        IN  /\ \A v \in DataValues : Apply(ret[1], v) = Verdict(Good(v))
            /\ \A v, w \in DataValues :
                  (v[1] = w[1] /\ v[1] \in {"list", "tuple"} /\ Range(v[2]) = Range(w[2]))
                      => Apply(ret[1], v) = Apply(ret[1], w)

\* a list was rejected for its last element alone, and a dict for a key
C11_Witness ==
    /\ Applied(1)
    /\ \/ /\ call[1] = <<"validator", List(<<str>>)>>
          /\ value[1] = VList(<<VStr("abc"), VInt(123)>>)
       \/ /\ call[1] = <<"validator", Mapping(<<str, int>>)>>
          /\ value[1] = VDict(<< <<VInt(123), VInt(123)>> >>)
    /\ verdict[1] = "False"

\* the classes whose instances a scalar descriptor takes: int and float
\* widen to float, int and float widen to complex, nothing else widens
\* (True is an int by inheritance, not by widening)
Accepted(name) ==
    CASE name = "float" -> {"bool", "int", "float"}
      [] name = "complex" -> {"bool", "int", "float", "complex"}
      [] name = "int" -> {"bool", "int"}
      [] OTHER -> {name}

\* C12: the predicate of a scalar is true iff the value is an instance of
\* the class, where float also takes ints and complex also takes ints and
\* floats; no other scalar takes a value of another class: bool rejects
\* the integer 1 and every value that is not a bool, int rejects None.
C12_Scalars ==
    (Holds(1) /\ Branch(call[1][2]) = "scalar") =>
        LET name == call[1][2][2][1]
        IN  /\ \A v \in DataValues :
                  Apply(ret[1], v) = Verdict(TypeName(v) \in Accepted(name))
            /\ name = "bool" =>
                  /\ Apply(ret[1], VInt(1)) = "False"
                  /\ \A v \in DataValues : v[1] # "bool" => Apply(ret[1], v) = "False"
            /\ name = "int" => Apply(ret[1], VNone) = "False"
            /\ name = "float" =>
                  Apply(ret[1], VInt(1)) = "True" /\ Apply(ret[1], VFloat(1)) = "True"
            /\ name = "complex" =>
                  /\ Apply(ret[1], VInt(1)) = "True"
                  /\ Apply(ret[1], VFloat(1)) = "True"
                  /\ Apply(ret[1], VComplex(1)) = "True"

\* float took an int, after bool had refused one
C12_Witness ==
    /\ Applied(1)
    /\ call[1] = <<"validator", float>>
    /\ value[1] = VInt(1)
    /\ verdict[1] = "True"
    /\ Cached(VALIDATORS, Key(bool))
    /\ Validate(bool, VInt(1)) = "False"

\* ------------------------------------------------------- the field table
FieldsCall(t) == call[t] # Nothing /\ call[t][1] = "dataclass_field_validators"

\* a frame of dataclass_field_validators that found its table in the cache
Hit(f) == f.fn = "dataclass_field_validators" /\ f.pc = "return" /\ f.vs = << >>

\* C13: dataclass_field_validators(T) returns a table with one entry per
\* declared field of T and no other key, the entry of a field being the
\* predicate validator() gives for the field's type hint, and nothing but
\* these predicates (no set of required names, no totality); the body runs
\* only when T has no table yet, the stored table is never replaced, and a
\* call that finds the table returns it in one step, without a nested
\* validator() call and without touching VALIDATORS.
C13_FieldTable ==
    /\ [](\A t \in Threads :
            (status[t] = "returned" /\ FieldsCall(t)) =>
                LET type_ == call[t][2]
                    hints == GetTypeHints(type_[2][1], FALSE)
                    table == ret[t][2]
                IN  /\ ret[t][1] = "table"
                    /\ { table[i][1] : i \in DOMAIN table } = FieldNames(type_)
                    /\ Len(table) = Cardinality(FieldNames(type_))
                    /\ \A i \in DOMAIN table :
                          \E j \in DOMAIN hints :
                              /\ hints[j][1] = table[i][1]
                              /\ table[i][2] = VALIDATORS[Key(hints[j][2])]
                    /\ ret[t] = FIELDS[Key(type_)])
    /\ [][ /\ Kept(FIELDS, FIELDS')
           /\ \A t \in Threads :
                 (/\ status[t] = "running"
                  /\ Top(t).fn = "dataclass_field_validators"
                  /\ Top(t).pc = "lookup"
                  /\ Key(Top(t).type_) \in DOMAIN FIELDS)
                    => /\ status'[t] = "running"
                       /\ Len(stack'[t]) = Len(stack[t])
                       /\ Hit(Top(t)')
                       /\ Top(t)'.res = FIELDS[Key(Top(t).type_)]
                       /\ VALIDATORS' = VALIDATORS
                       /\ built' = built
           /\ \A t \in Threads :
                 (status[t] = "running" /\ Hit(Top(t)))
                    => status'[t] = "returned" /\ ret'[t] = FIELDS[Key(Top(t).type_)]
         ]_vars

\* the second call found the table the first call had stored
C13_Witness ==
    /\ ncalls = 2
    /\ status[1] = "running"
    /\ Hit(Top(1))
    /\ Top(1).res = FIELDS[Key(Package)]
    /\ Len(Top(1).res[2]) = 2

\* ------------------------------------------------------ malformed schemas
BadDC == Dataclass("BadDC")

SchemaTargets ==
    { PyNone, List(<<ForwardRefFoo>>), Union(<<int, List(<<ForwardRefFoo>>)>>),
      TypedDictBad, Optional(TypedDictBad), int, List(<<int>>), TypedDictExample }

CallSchema(t) ==
    /\ status[t] # "running"
    /\ ncalls < MaxCalls
    /\ \/ \E type_ \in SchemaTargets : Enter(t, "validator", type_)
       \/ \E type_ \in {BadDC, Package} : Enter(t, "dataclass_field_validators", type_)

NextSchema == CallSchema(1) \/ Compile(1) \/ ReflectFails(1) \/ ApplyData(1)

SpecSchema == Init /\ [][NextSchema]_vars

\* a descriptor with a leaf that is no type, or with a record whose hints
\* cannot be evaluated, anywhere in it
RECURSIVE Malformed(_)
Malformed(type_) ==
    CASE type_[1] = "Object" -> TRUE
      [] type_[1] \in {"TypedDict", "Dataclass"} -> HintsRaise(type_[2][1])
      [] type_[1] \in {"Union", "List", "Sequence", "Dict", "Mapping", "Tuple", "Type",
                       "InitVar"} ->
            \E i \in DOMAIN type_[2] : Malformed(type_[2][i])
      [] OTHER -> FALSE

\* C14: a call of validator() or dataclass_field_validators() for a
\* malformed descriptor raises while the schema is compiled: it never
\* returns a predicate or a table, stores none under the descriptor, and no
\* predicate raises for the defect when it is applied to a value.
C14_FailsAtCompile ==
    \A t \in Threads :
        (call[t] # Nothing /\ Malformed(call[t][2])) =>
            /\ status[t] \in {"running", "raised"}
            /\ verdict[t] # "TypeError"
            /\ ~Cached(VALIDATORS, Key(call[t][2]))
            /\ ~Cached(FIELDS, Key(call[t][2]))

\* ------------------------------------------ clippy.py: run_tool_on_targets
\* The coroutine run_tool_on_targets, its run_subprocess tasks and the
\* children they start, on one asyncio event loop.  A step is what a
\* coroutine does between two suspensions.  The loop runs callbacks in the
\* order they were queued: the first step of every task, queued by
\* ensure_future, comes before any callback queued later, the signal
\* handler included.

\* the return codes a child may exit with (negative: ended by a signal)
ExitCodes == { -2, 0, 1 }

\* asyncio.ensure_future(run_subprocess(cmdlist)): a task not started yet
Task ==
    [ pc |-> "new", must_cancel |-> FALSE, child |-> "none",
      returncode |-> None, result |-> None, caught |-> "" ]

\* f.done()
Final(f) == f.pc \in {"done", "failed", "cancelled"}

Started == \A i \in DOMAIN futures : futures[i].pc # "new"

\* the waiters of the semaphore whose future is still pending
Pending(fs) == { i \in DOMAIN fs : fs[i].pc = "waiting" /\ ~fs[i].must_cancel }

\* a semaphore that always lets a task in
locked_never(fs, permits) == FALSE

\* Semaphore.locked(): no permit left, or a waiter that was not cancelled
locked(fs, permits) ==
    permits = 0 \/ Pending(fs) # {} \/ \E i \in DOMAIN fs : fs[i].pc = "granted"

\* Semaphore._wake_up_next(): the first pending waiter is handed a permit
wake_up_next(fs, permits) ==
    IF Pending(fs) = {} THEN [ futures |-> fs, permits |-> permits ]
    ELSE [ futures |-> [ fs EXCEPT ![FirstIdx(Pending(fs))].pc = "granted" ],
           permits |-> permits - 1 ]

\* Semaphore.release(), called when `async with semaphore` is left
release(fs, permits) == wake_up_next(fs, permits + 1)

\* a kill that leaves the child alone
Kill_spares(child) == child

\* Process.kill() / transport.close(): SIGKILL for a child still running
Kill(child) == IF child = "running" THEN "killed" ELSE child

\* p.returncode or 1
ReturncodeOr1(returncode) ==
    IF returncode = None \/ returncode = Some(0) THEN Some(1) ELSE returncode

\* mtest.determine_worker_count(): the number of CPUs, or what the
\* environment asks for; at least one
determine_worker_count == 1..MaxWorkers

\* semaphore = asyncio.Semaphore(determine_worker_count())
run_tool_on_targets ==
    /\ main.pc = "idle"
    /\ \E n \in determine_worker_count :
         /\ semaphore' = n
         /\ main' = [ main EXCEPT !.pc = "loop", !.workers = n ]
    /\ UNCHANGED <<futures, signals>>
    /\ UNCHANGED validate_vars

\* one round of `for t in targets`: fn(t) gives a command or None
ForTarget ==
    /\ main.pc = "loop"
    /\ main.seen < MaxTargets
    /\ \E cmdlist \in BOOLEAN :
         futures' = IF cmdlist THEN Append(futures, Task) ELSE futures
    /\ main' = [ main EXCEPT !.seen = @ + 1 ]
    /\ UNCHANGED <<semaphore, signals>>
    /\ UNCHANGED validate_vars

\* the loop is over: `await complete_all(futures)` suspends when there are
\* futures; with none it returns at once and max() of nothing raises
AwaitAll ==
    /\ main.pc = "loop"
    /\ main' = IF futures = << >>
               THEN [ main EXCEPT !.pc = "raised", !.exc = "ValueError" ]
               ELSE [ main EXCEPT !.pc = "waiting" ]
    /\ UNCHANGED <<futures, semaphore, signals>>
    /\ UNCHANGED validate_vars

\* f.result() for f in futures if f.done() and not f.cancelled()
Results == { futures[i].result[1] : i \in { j \in DOMAIN futures : futures[j].pc = "done" } }

Max(S) == CHOOSE m \in S : \A n \in S : n <= m

\* mtest.complete_all(futures) is over: it waits for all the futures and
\* stops at the first that raised, whose exception it raises
complete_all(fs) ==
    \/ \E i \in DOMAIN fs : fs[i].pc = "failed"
    \/ \A i \in DOMAIN fs : Final(fs[i])

\* `await complete_all(futures)` resumes; then `return max(...)`
ReturnMax ==
    /\ main.pc = "waiting"
    /\ complete_all(futures)
    /\ main' =
         IF \E i \in DOMAIN futures : futures[i].pc = "failed"
         THEN [ main EXCEPT !.pc = "raised", !.exc = "ProcessLookupError" ]
         ELSE IF Results = {}
         THEN [ main EXCEPT !.pc = "raised", !.exc = "ValueError" ]
         ELSE [ main EXCEPT !.pc = "returned", !.ret = Some(Max(Results)) ]
    /\ UNCHANGED <<futures, semaphore, signals>>
    /\ UNCHANGED validate_vars

\* the loop runs sigterm_handler: f.cancel() for every future, which has
\* CancelledError thrown into each task not done at its next step
sigterm_handler ==
    /\ main.pc = "waiting"
    /\ Started
    /\ signals < MaxSignals
    /\ futures' = [ i \in DOMAIN futures |->
                      IF Final(futures[i]) THEN futures[i]
                      ELSE [ futures[i] EXCEPT !.must_cancel = TRUE ] ]
    /\ signals' = signals + 1
    /\ UNCHANGED <<semaphore, main>>
    /\ UNCHANGED validate_vars

\* ---- the steps of run_subprocess, task i
Put(i, f) == [ futures EXCEPT ![i] = f ]

\* the first step: a task cancelled before it runs never enters the body;
\* otherwise `async with semaphore` takes a permit, and then
\* create_subprocess_exec forks the child, or the task waits for a permit
Start(i) ==
    /\ main.pc = "waiting"
    /\ i \in DOMAIN futures
    /\ futures[i].pc = "new"
    /\ \A j \in 1..(i - 1) : futures[j].pc # "new"
    /\ LET f == futures[i]
       IN  IF f.must_cancel
           THEN /\ futures' = Put(i, [ f EXCEPT !.pc = "cancelled", !.must_cancel = FALSE ])
                /\ semaphore' = semaphore
           ELSE IF ~locked(futures, semaphore)
           THEN /\ futures' = Put(i, [ f EXCEPT !.pc = "spawning", !.child = "running" ])
                /\ semaphore' = semaphore - 1
           ELSE /\ futures' = Put(i, [ f EXCEPT !.pc = "waiting" ])
                /\ semaphore' = semaphore
    /\ UNCHANGED <<main, signals>>
    /\ UNCHANGED validate_vars

\* acquire() resumes with the permit it was handed and
\* create_subprocess_exec forks the child
Acquired(i) ==
    /\ Started
    /\ i \in DOMAIN futures
    /\ futures[i].pc = "granted"
    /\ ~futures[i].must_cancel
    /\ LET fs == Put(i, [ futures[i] EXCEPT !.pc = "spawning", !.child = "running" ])
           s == IF semaphore > 0 THEN wake_up_next(fs, semaphore)
                ELSE [ futures |-> fs, permits |-> semaphore ]
       IN  futures' = s.futures /\ semaphore' = s.permits
    /\ UNCHANGED <<main, signals>>
    /\ UNCHANGED validate_vars

\* CancelledError inside acquire(): a permit already handed over is given
\* back; p is None, so run_subprocess returns 0
AcquireCancelled(i) ==
    /\ Started
    /\ i \in DOMAIN futures
    /\ futures[i].pc \in {"waiting", "granted"}
    /\ futures[i].must_cancel
    /\ LET fs == Put(i, [ futures[i] EXCEPT !.pc = "done", !.must_cancel = FALSE,
                                            !.result = Some(0), !.caught = "acquire" ])
           s == IF futures[i].pc = "granted" THEN release(fs, semaphore)
                ELSE [ futures |-> fs, permits |-> semaphore ]
       IN  futures' = s.futures /\ semaphore' = s.permits
    /\ UNCHANGED <<main, signals>>
    /\ UNCHANGED validate_vars

\* create_subprocess_exec returns the Process: p is set, and
\* `await p.communicate()` suspends
Spawned(i) ==
    /\ Started
    /\ i \in DOMAIN futures
    /\ futures[i].pc = "spawning"
    /\ ~futures[i].must_cancel
    /\ futures' = Put(i, [ futures[i] EXCEPT !.pc = "communicating" ])
    /\ UNCHANGED <<semaphore, main, signals>>
    /\ UNCHANGED validate_vars

\* CancelledError inside create_subprocess_exec: asyncio closes the
\* transport, which kills the child, and waits for it before re-raising
SpawnCancelled(i) ==
    /\ Started
    /\ i \in DOMAIN futures
    /\ futures[i].pc = "spawning"
    /\ futures[i].must_cancel
    /\ futures' = Put(i, [ futures[i] EXCEPT !.pc = "closing", !.must_cancel = FALSE,
                                             !.child = Kill(@), !.caught = "spawn" ])
    /\ UNCHANGED <<semaphore, main, signals>>
    /\ UNCHANGED validate_vars

\* the wait is over (or cancelled again): CancelledError leaves
\* `async with semaphore`; p is None, so run_subprocess returns 0
Closed(i) ==
    /\ Started
    /\ i \in DOMAIN futures
    /\ futures[i].pc = "closing"
    /\ LET fs == Put(i, [ futures[i] EXCEPT !.pc = "done", !.must_cancel = FALSE,
                                            !.result = Some(0) ])
           s == release(fs, semaphore)
       IN  futures' = s.futures /\ semaphore' = s.permits
    /\ UNCHANGED <<main, signals>>
    /\ UNCHANGED validate_vars

\* communicate() returns once the child has exited: `return p.returncode`
Communicated(i) ==
    /\ Started
    /\ i \in DOMAIN futures
    /\ futures[i].pc = "communicating"
    /\ ~futures[i].must_cancel
    /\ futures[i].child \in {"exited", "lost"}
    /\ LET fs == Put(i, [ futures[i] EXCEPT !.pc = "done", !.result = futures[i].returncode ])
           s == release(fs, semaphore)
       IN  futures' = s.futures /\ semaphore' = s.permits
    /\ UNCHANGED <<main, signals>>
    /\ UNCHANGED validate_vars

\* CancelledError inside communicate(): the semaphore is released, then
\* `p.kill(); return p.returncode or 1`.  Process.kill() raises
\* ProcessLookupError once the transport has dropped an exited child.
CommunicateCancelled(i) ==
    /\ Started
    /\ i \in DOMAIN futures
    /\ futures[i].pc = "communicating"
    /\ futures[i].must_cancel
    /\ LET f == futures[i]
           g == IF f.child = "lost"
                THEN [ f EXCEPT !.pc = "failed", !.must_cancel = FALSE,
                                !.caught = "communicate" ]
                ELSE [ f EXCEPT !.pc = "done", !.must_cancel = FALSE,
                                !.child = Kill(@), !.caught = "communicate",
                                !.result = ReturncodeOr1(f.returncode) ]
           s == release(Put(i, g), semaphore)
       IN  futures' = s.futures /\ semaphore' = s.permits
    /\ UNCHANGED <<main, signals>>
    /\ UNCHANGED validate_vars

\* the child of task i exits by itself
ChildExits(i) ==
    /\ i \in DOMAIN futures
    /\ futures[i].child = "running"
    /\ \E rc \in ExitCodes :
         futures' = Put(i, [ futures[i] EXCEPT !.child = "exited", !.returncode = Some(rc) ])
    /\ UNCHANGED <<semaphore, main, signals>>
    /\ UNCHANGED validate_vars

\* the transport of an exited child has lost its pipes: connection_lost
\* drops the Popen object
ConnectionLost(i) ==
    /\ i \in DOMAIN futures
    /\ futures[i].child = "exited"
    /\ futures' = Put(i, [ futures[i] EXCEPT !.child = "lost" ])
    /\ UNCHANGED <<semaphore, main, signals>>
    /\ UNCHANGED validate_vars

run_subprocess(i) ==
    \/ Start(i)
    \/ Acquired(i)
    \/ AcquireCancelled(i)
    \/ Spawned(i)
    \/ SpawnCancelled(i)
    \/ Closed(i)
    \/ Communicated(i)
    \/ CommunicateCancelled(i)

NextClippy ==
    \/ run_tool_on_targets
    \/ ForTarget
    \/ AwaitAll
    \/ ReturnMax
    \/ sigterm_handler
    \/ \E i \in 1..MaxTargets : run_subprocess(i) \/ ChildExits(i) \/ ConnectionLost(i)

SpecClippy == Init /\ [][NextClippy]_vars

\* The loop runs every callback that is ready, and a child process ends.
SpecClippyFair ==
    /\ SpecClippy
    /\ WF_vars(run_tool_on_targets)
    /\ WF_vars(AwaitAll)
    /\ WF_vars(ReturnMax)
    /\ \A i \in 1..MaxTargets : WF_vars(run_subprocess(i)) /\ WF_vars(ChildExits(i))

\* ---- the claims about run_tool_on_targets
Running == { i \in DOMAIN futures : futures[i].child = "running" }

\* C15: a task into which CancelledError was thrown has no running child
\* from that step on: the child it had started was killed unless it had
\* already exited, and a task cancelled while it waited for the semaphore
\* has no child and never gets one; when run_tool_on_targets returns, no
\* child of any task is running.
C15_KillOnCancel ==
    /\ [](/\ \A i \in DOMAIN futures :
               LET f == futures[i]
               IN  /\ f.caught # "" => f.child # "running"
                   /\ f.caught \in {"spawn", "communicate"} =>
                         f.child \in {"killed", "exited", "lost"}
                   /\ f.caught = "acquire" => f.child = "none"
          /\ main.pc = "returned" => Running = {})
    /\ [][ \A i \in DOMAIN futures :
             (futures[i].child = "none" /\ (futures[i].must_cancel \/ futures[i].caught # ""))
                => futures'[i].child = "none" ]_vars

\* run_tool_on_targets has returned after a signal: one task had its child
\* killed inside communicate(), another was cancelled waiting for a permit
C15_Witness ==
    /\ main.pc = "returned"
    /\ \E i, j \in DOMAIN futures :
         /\ futures[i].caught = "communicate" /\ futures[i].child = "killed"
         /\ futures[j].caught = "acquire" /\ futures[j].child = "none"

C17_ReturnsMax ==
    /\ main.pc # "raised"
    /\ main.pc = "returned" =>
          /\ Results # {}
          /\ main.ret[1] \in Results
          /\ \A r \in Results : r <= main.ret[1]
    /\ \A i \in DOMAIN futures :
          (futures[i].pc = "done" /\ futures[i].caught \in {"spawn", "communicate"})
             => futures[i].result # Some(0)
====
